---------------------------- MODULE Spec2Model ----------------------------
(***************************************************************************)
(* A model of html2canvas' render-call orchestration, src/src/index.ts:    *)
(* renderElement and the collaborators it drives (Logger, CacheStorage,    *)
(* IframeStorage, DocumentCloner, FastModeCloner, the two renderers).      *)
(*                                                                         *)
(* renderElement is an async function: it runs synchronously from one     *)
(* await to the next, and other calls may run in between.  Each action     *)
(* below is one such synchronous stretch of one call.                      *)
(***************************************************************************)
EXTENDS Integers, FiniteSets, Sequences, TLC

(***************************************************************************)
(* Bounds of the model.                                                    *)
(***************************************************************************)
\* Number of renderElement calls the environment makes (they may overlap).
NumCalls == 2
\* Math.round(Math.random() * 1000) takes the values 0..RandomRange
\* (1000 in the source, line 50, scaled down).
RandomRange == 1

Calls == 1..NumCalls

(***************************************************************************)
(* Values.  A frame is named by the call whose toIFrame created it.        *)
(***************************************************************************)
NoFrame == 0
NoInstance == -1

\* An option key that is absent from opts, and the values null / undefined.
Unset == "unset"
Null == "null"
Undefined == "undefined"

\* JavaScript truthiness of a string | null | undefined option value.
Truthy(v) == v \notin {Unset, Null, Undefined, ""}

\* {...defaults, ...opts}: a key present in opts (even with the value
\* undefined) overrides the default; an absent key leaves it.
Spread(default, v) == IF v = Unset THEN default ELSE v


(***************************************************************************)
(* Colours (./css/types/color).  A Color is a 32-bit number packing the    *)
(* four bytes red, green, blue, alpha; it is written here as the tuple of  *)
(* its bytes, <<r, g, b, a>> for (r << 24) | (g << 16) | (b << 8) | a.      *)
(***************************************************************************)
pack(r, g, b, a) == <<r % 256, g % 256, b % 256, a % 256>>

\* COLORS.TRANSPARENT, 0x00000000
TRANSPARENT == <<0, 0, 0, 0>>

\* The literal 0xffffffff of line 148.
OpaqueWhite == <<255, 255, 255, 255>>

\* isTransparent: (0xff & color) === 0
isTransparent(color) == color[4] = 0

\* parseColor, on the colour texts the model uses: what getComputedStyle
\* reports for a background ("rgb(...)", "rgba(...)") and what a caller
\* passes as backgroundColor.
parseColor(value) ==
    CASE value = "rgba(0, 0, 0, 0)"      -> pack(0, 0, 0, 0)
      [] value = "transparent"           -> TRANSPARENT
      [] value = "rgb(10, 20, 30)"       -> pack(10, 20, 30, 255)
      [] value = "rgba(10, 20, 30, 0)"   -> pack(10, 20, 30, 0)
      [] value = "rgb(255, 0, 0)"        -> pack(255, 0, 0, 255)
      [] value = "#ff0000"               -> pack(255, 0, 0, 255)
      [] value = "#ffffff"               -> pack(255, 255, 255, 255)
      [] value = "rgb(255, 255, 255)"    -> pack(255, 255, 255, 255)

\* Computed background texts of a document's root element and body; a
\* document may have no body (NoBody).
NoBody == "no body"
ComputedBackgrounds ==
    {"rgba(0, 0, 0, 0)", "rgb(10, 20, 30)", "rgba(10, 20, 30, 0)", "rgb(255, 0, 0)"}
\* opts.backgroundColor: absent, undefined, null, or a colour text.
BackgroundOptions == {Unset, Undefined, Null, "#ffffff", "#ff0000", "transparent"}

(***************************************************************************)
(* The options a caller passes and the element it targets.                 *)
(***************************************************************************)
\* element: without ownerDocument, in a document without defaultView, the
\* document's root element, or any other element.
Elements == {"noDocument", "noWindow", "root", "child"}

RenderNames == {Unset, Null, "", "a"}
ReplaceSelectors == {Unset, "", "#sel"}
RemoveContainers == {Unset, Undefined, "true", "false"}

\* Partial<Options>, the fields renderElement branches on.  cache is TRUE
\* when the caller supplies its own cache object.
AllOptions ==
    [ renderName : RenderNames,
      replaceSelector : ReplaceSelectors,
      removeContainer : RemoveContainers,
      foreignObjectRendering : BOOLEAN,
      cache : BOOLEAN,
      backgroundColor : BackgroundOptions ]

NoOptions ==
    [ renderName |-> Unset, replaceSelector |-> Unset, removeContainer |-> Unset,
      foreignObjectRendering |-> FALSE, cache |-> FALSE, backgroundColor |-> Unset ]

\* const options = {...defaultOptions, ...resourceOptions, ...opts}
MergeOptions(o) ==
    [ renderName |-> Spread(Null, o.renderName),
      replaceSelector |-> Spread(Null, o.replaceSelector),
      removeContainer |-> Spread("true", o.removeContainer),
      foreignObjectRendering |-> o.foreignObjectRendering,
      cache |-> o.cache,
      backgroundColor |-> Spread("#ffffff", o.backgroundColor) ]

(***************************************************************************)
(* State.                                                                  *)
(***************************************************************************)
VARIABLES
    pc,                 \* where each call is: idle, at an await, or settled
    element,            \* the call's target element
    opts,               \* the call's opts argument
    instanceName,       \* the call's run identity
    container,          \* the call's hosting frame
    clonedElement,      \* whether the call holds a duplicated element
    backgroundColor,    \* the call's resolved background
    backend,            \* the renderer the call dispatched to
    error,              \* why a rejected call was rejected
    fastCloneCalls,     \* FastModeCloner.clone invocations per call
    toIFrameCalls,      \* DocumentCloner.toIFrame invocations per call
    destroyed,          \* what DocumentCloner.destroy returned to the call
    releases,           \* Logger.destroy/CacheStorage.destroy runs per call
    rootBackground,     \* root.styles.backgroundColor as handed to CanvasRenderer
    teardown,           \* the collaborator calls of lines 199-212, in order
    IframeStorage,      \* the named-frame cache: render name -> frame
    attached,           \* frames that are in the DOM (contentWindow non-null)
    LoggerInstances,    \* ids registered in Logger
    CacheInstances,     \* ids registered in CacheStorage
    attachedInstance,   \* the cache CacheStorage.attachInstance made current
    documentBackground, \* computed background text of the root element
    bodyBackground,     \* computed background text of the body, or NoBody
    elementBackground   \* computed background text of any other target element

callVars == <<pc, element, opts, instanceName, container, clonedElement,
              backgroundColor, backend, error, fastCloneCalls, toIFrameCalls,
              destroyed, releases, rootBackground, teardown>>
sharedVars == <<IframeStorage, attached, LoggerInstances, CacheInstances,
                attachedInstance>>
envVars == <<documentBackground, bodyBackground, elementBackground>>
vars == <<callVars, sharedVars, envVars>>

\* The keys IframeStorage may be asked to store under: options.renderName.
StorageKeys == RenderNames \ {Unset}
\* backgroundColor before line 150 has run.
NotResolved == <<>>


(***************************************************************************)
(* Collaborators.                                                          *)
(***************************************************************************)
\* IframeStorage.getIframe(name): the stored frame, or none.
getIframe(name) == IframeStorage[name]

\* cachedIframe.iframe.contentWindow !== null: a frame has a window while it
\* is in the DOM.
contentWindowReachable(frame) == frame \in attached

\* As FastPathQualifies, with the cached frame lent to one call at a time.
FastPathQualifies_SingleFlight(options) ==
    /\ Truthy(options.replaceSelector)
    /\ Truthy(options.renderName)
    /\ getIframe(options.renderName) # NoFrame
    /\ contentWindowReachable(getIframe(options.renderName))
    /\ \A d \in Calls :
          pc[d] \in {"fastClone", "render"} => container[d] # getIframe(options.renderName)

\* As FastPathQualifies, without the test of contentWindow.
FastPathQualifies_NoWindowTest(options) ==
    /\ Truthy(options.replaceSelector)
    /\ Truthy(options.renderName)
    /\ getIframe(options.renderName) # NoFrame

\* Lines 102 and 105: does the call take the fast path?
FastPathQualifies(options) ==
    /\ Truthy(options.replaceSelector)
    /\ Truthy(options.renderName)
    /\ getIframe(options.renderName) # NoFrame
    /\ contentWindowReachable(getIframe(options.renderName))

\* Line 50: Math.round(Math.random() * 1000) + Date.now(), for the random
\* part r.  The calls of a run are made at the same reading of the clock,
\* Date_now: two run identities are equal exactly when their random parts
\* are.
Date_now == 0
RandomParts == 0..RandomRange
InstanceName(r) == r + Date_now

(***************************************************************************)
(* Lines 138-157: the background of the rendered surface.                  *)
(***************************************************************************)
\* typeof v === 'string'
IsString(v) == v \notin {Unset, Undefined, Null}

\* As defaultBackgroundColor, with null treated as an absent option.
defaultBackgroundColor_NullIsWhite(bgColor) ==
    IF IsString(bgColor) THEN parseColor(bgColor) ELSE OpaqueWhite

defaultBackgroundColor(bgColor) ==
    IF IsString(bgColor) THEN parseColor(bgColor)
    ELSE IF bgColor = Null THEN TRANSPARENT
    ELSE OpaqueWhite

\* As ResolveBackground, with an explicit backgroundColor taking priority
\* over the document's own backgrounds.
ResolveBackground_OptionFirst(el, docBg, bodyBg, bgColor) ==
    LET documentBackgroundColor == parseColor(docBg)
        bodyBackgroundColor ==
            IF bodyBg # NoBody THEN parseColor(bodyBg) ELSE TRANSPARENT
    IN  IF el = "root" /\ ~IsString(bgColor)
        THEN IF isTransparent(documentBackgroundColor)
             THEN IF isTransparent(bodyBackgroundColor)
                  THEN defaultBackgroundColor(bgColor)
                  ELSE bodyBackgroundColor
             ELSE documentBackgroundColor
        ELSE defaultBackgroundColor(bgColor)

ResolveBackground(el, docBg, bodyBg, bgColor) ==
    LET documentBackgroundColor == parseColor(docBg)
        bodyBackgroundColor ==
            IF bodyBg # NoBody THEN parseColor(bodyBg) ELSE TRANSPARENT
    IN  IF el = "root"
        THEN IF isTransparent(documentBackgroundColor)
             THEN IF isTransparent(bodyBackgroundColor)
                  THEN defaultBackgroundColor(bgColor)
                  ELSE bodyBackgroundColor
             ELSE documentBackgroundColor
        ELSE defaultBackgroundColor(bgColor)

(***************************************************************************)
(* Initial state: no call made, nothing registered, no frame cached.       *)
(***************************************************************************)
InitCalls ==
    /\ pc = [c \in Calls |-> "idle"]
    /\ element = [c \in Calls |-> "child"]
    /\ opts = [c \in Calls |-> NoOptions]
    /\ instanceName = [c \in Calls |-> NoInstance]
    /\ container = [c \in Calls |-> NoFrame]
    /\ clonedElement = [c \in Calls |-> FALSE]
    /\ backgroundColor = [c \in Calls |-> NotResolved]
    /\ backend = [c \in Calls |-> "none"]
    /\ error = [c \in Calls |-> "none"]
    /\ fastCloneCalls = [c \in Calls |-> 0]
    /\ toIFrameCalls = [c \in Calls |-> 0]
    /\ destroyed = [c \in Calls |-> "not called"]
    /\ releases = [c \in Calls |-> 0]
    /\ rootBackground = [c \in Calls |-> NotResolved]
    /\ teardown = [c \in Calls |-> <<>>]

InitShared ==
    /\ IframeStorage = [n \in StorageKeys |-> NoFrame]
    /\ attached = {}
    /\ LoggerInstances = {}
    /\ CacheInstances = {}
    /\ attachedInstance = NoInstance

(***************************************************************************)
(* renderElement, lines 37-132, up to the first await.                     *)
(***************************************************************************)
\* As Precondition, with the checks made after the logger is created.
Precondition_AfterLogger(c, el, o) ==
    /\ el \in {"noDocument", "noWindow"}
    /\ pc' = [pc EXCEPT ![c] = "rejected"]
    /\ error' = [error EXCEPT ![c] =
                    IF el = "noDocument"
                    THEN "Element is not attached to a Document"
                    ELSE "Document is not attached to a Window"]
    /\ element' = [element EXCEPT ![c] = el]
    /\ \E r \in RandomParts : LoggerInstances' = LoggerInstances \cup {InstanceName(r)}
    /\ UNCHANGED <<opts, instanceName, container, clonedElement, backgroundColor,
                   backend, fastCloneCalls, toIFrameCalls, destroyed, releases,
                   rootBackground, teardown>>
    /\ UNCHANGED <<IframeStorage, attached, CacheInstances, attachedInstance>>

\* Lines 40-48: the element has no document, or the document no window.
Precondition(c, el, o) ==
    /\ el \in {"noDocument", "noWindow"}
    /\ pc' = [pc EXCEPT ![c] = "rejected"]
    /\ error' = [error EXCEPT ![c] =
                    IF el = "noDocument"
                    THEN "Element is not attached to a Document"
                    ELSE "Document is not attached to a Window"]
    /\ element' = [element EXCEPT ![c] = el]
    /\ UNCHANGED <<opts, instanceName, container, clonedElement, backgroundColor,
                   backend, fastCloneCalls, toIFrameCalls, destroyed, releases,
                   rootBackground, teardown>>
    /\ UNCHANGED sharedVars

\* Lines 50-89: the run identity, its cache (unless the caller supplies
\* one) and its logger.
CreateInstance(c, el, o, id) ==
    /\ el \notin {"noDocument", "noWindow"}
    /\ element' = [element EXCEPT ![c] = el]
    /\ opts' = [opts EXCEPT ![c] = o]
    /\ instanceName' = [instanceName EXCEPT ![c] = id]
    /\ CacheInstances' = IF o.cache THEN CacheInstances ELSE CacheInstances \cup {id}
    /\ LoggerInstances' = LoggerInstances \cup {id}

\* Lines 102-118: the cached frame is borrowed and FastModeCloner.clone is
\* awaited.
StartFastClone(c, options) ==
    /\ FastPathQualifies(options)
    /\ container' = [container EXCEPT ![c] = getIframe(options.renderName)]
    /\ fastCloneCalls' = [fastCloneCalls EXCEPT ![c] = @ + 1]
    /\ pc' = [pc EXCEPT ![c] = "fastClone"]
    /\ UNCHANGED <<clonedElement, toIFrameCalls, attached>>

\* Lines 119-132: cloneDocument finds the reference element or not, and
\* toIFrame puts a new frame into the document and is awaited.
StartFullClone(c, options, found) ==
    /\ ~FastPathQualifies(options)
    /\ clonedElement' = [clonedElement EXCEPT ![c] = found]
    /\ toIFrameCalls' = [toIFrameCalls EXCEPT ![c] = @ + 1]
    /\ attached' = attached \cup {c}
    /\ pc' = [pc EXCEPT ![c] = "toIFrame"]
    /\ UNCHANGED <<container, fastCloneCalls>>

Start(c, el, o, r) ==
    /\ pc[c] = "idle"
    /\ \/ Precondition(c, el, o)
       \/ /\ CreateInstance(c, el, o, InstanceName(r))
          /\ \/ StartFastClone(c, MergeOptions(o))
             \/ \E found \in BOOLEAN : StartFullClone(c, MergeOptions(o), found)
          /\ UNCHANGED <<backgroundColor, backend, error, destroyed, releases,
                         rootBackground, teardown, IframeStorage,
                         attachedInstance>>
    /\ UNCHANGED envVars


(***************************************************************************)
(* Lines 134-197: from a settled duplication to the awaited render.        *)
(***************************************************************************)
\* Logger.getInstance(id) throws when no logger is registered under id.
LoggerMissing(c) == instanceName[c] \notin LoggerInstances

\* Lines 134-136.
CloneResolutionFails(c, cloned) ==
    /\ ~cloned
    /\ pc' = [pc EXCEPT ![c] = "rejected"]
    /\ error' = [error EXCEPT ![c] = "Unable to find element in cloned iframe"]
    /\ UNCHANGED <<backgroundColor, backend, rootBackground, attachedInstance>>

\* Line 76 and 161: options.cache, the caller's cache object or the one
\* created under the run identity.
SuppliedCache == -2
CacheOf(c) == IF opts[c].cache THEN SuppliedCache ELSE instanceName[c]

\* parseTree(clonedElement).styles.backgroundColor: the parsed computed
\* background of the duplicated element, which is that of the element.
RootStylesBackground(el) ==
    parseColor(IF el = "root" THEN documentBackground ELSE elementBackground)

\* As Fixup, clearing the root's background whenever the surface has one.
Fixup_WhenSurfaceFilled(bgColor, rootColor) ==
    IF ~isTransparent(bgColor) THEN TRANSPARENT ELSE rootColor

\* Lines 189-191: root.styles.backgroundColor after the test against the
\* resolved backgroundColor.
Fixup(bgColor, rootColor) ==
    IF bgColor = rootColor THEN TRANSPARENT ELSE rootColor

\* As Dispatch, with the computed-style path taken whatever
\* foreignObjectRendering is.
Dispatch_AlwaysComputed(c, cloned) ==
    LET resolved == ResolveBackground(element[c], documentBackground,
                                      bodyBackground, opts[c].backgroundColor)
    IN  /\ cloned
        /\ backgroundColor' = [backgroundColor EXCEPT ![c] = resolved]
        /\ IF LoggerMissing(c)
           THEN /\ pc' = [pc EXCEPT ![c] = "rejected"]
                /\ error' = [error EXCEPT ![c] = "No logger instance found"]
                /\ UNCHANGED <<backend, rootBackground, attachedInstance>>
           ELSE IF FALSE
           THEN /\ pc' = [pc EXCEPT ![c] = "render"]
                /\ backend' = [backend EXCEPT ![c] = "ForeignObjectRenderer"]
                /\ UNCHANGED <<error, rootBackground, attachedInstance>>
           ELSE \/ /\ pc' = [pc EXCEPT ![c] = "render"]
                   /\ backend' = [backend EXCEPT ![c] = "CanvasRenderer"]
                   /\ rootBackground' = [rootBackground EXCEPT ![c] =
                          Fixup(resolved, RootStylesBackground(element[c]))]
                   /\ attachedInstance' = NoInstance
                   /\ UNCHANGED error
                \/ /\ pc' = [pc EXCEPT ![c] = "rejected"]
                   /\ error' = [error EXCEPT ![c] = "parseTree failed"]
                   /\ attachedInstance' = CacheOf(c)
                   /\ UNCHANGED <<backend, rootBackground>>

\* Lines 138-197: the background is resolved, then exactly one renderer is
\* created and its render awaited.  On the computed-style path parseTree
\* runs between attachInstance and detachInstance, and may throw.
Dispatch(c, cloned) ==
    LET resolved == ResolveBackground(element[c], documentBackground,
                                      bodyBackground, opts[c].backgroundColor)
    IN  /\ cloned
        /\ backgroundColor' = [backgroundColor EXCEPT ![c] = resolved]
        /\ IF LoggerMissing(c)
           THEN /\ pc' = [pc EXCEPT ![c] = "rejected"]
                /\ error' = [error EXCEPT ![c] = "No logger instance found"]
                /\ UNCHANGED <<backend, rootBackground, attachedInstance>>
           ELSE IF MergeOptions(opts[c]).foreignObjectRendering
           THEN /\ pc' = [pc EXCEPT ![c] = "render"]
                /\ backend' = [backend EXCEPT ![c] = "ForeignObjectRenderer"]
                /\ UNCHANGED <<error, rootBackground, attachedInstance>>
           ELSE \/ /\ pc' = [pc EXCEPT ![c] = "render"]
                   /\ backend' = [backend EXCEPT ![c] = "CanvasRenderer"]
                   /\ rootBackground' = [rootBackground EXCEPT ![c] =
                          Fixup(resolved, RootStylesBackground(element[c]))]
                   /\ attachedInstance' = NoInstance
                   /\ UNCHANGED error
                \/ /\ pc' = [pc EXCEPT ![c] = "rejected"]
                   /\ error' = [error EXCEPT ![c] = "parseTree failed"]
                   /\ attachedInstance' = CacheOf(c)
                   /\ UNCHANGED <<backend, rootBackground>>

\* As AfterClone, with Logger.destroy and CacheStorage.destroy run before
\* the render is awaited.
AfterClone_ReleasesEarly(c, cloned) ==
    /\ \/ CloneResolutionFails(c, cloned)
       \/ Dispatch(c, cloned)
    /\ releases' = [releases EXCEPT ![c] = @ + 1]
    /\ LoggerInstances' = LoggerInstances \ {instanceName[c]}
    /\ CacheInstances' = CacheInstances \ {instanceName[c]}
    /\ UNCHANGED <<element, opts, instanceName, fastCloneCalls, toIFrameCalls,
                   destroyed, teardown>>
    /\ UNCHANGED <<IframeStorage, attached, envVars>>

AfterClone(c, cloned) ==
    /\ \/ CloneResolutionFails(c, cloned)
       \/ Dispatch(c, cloned)
    /\ UNCHANGED <<element, opts, instanceName, fastCloneCalls, toIFrameCalls,
                   destroyed, releases, teardown>>
    /\ UNCHANGED <<IframeStorage, attached, LoggerInstances, CacheInstances,
                   envVars>>

\* As FastCloneFails, falling back to the full duplication.
FastCloneFails_FallsBack(c) ==
    /\ pc[c] = "fastClone"
    /\ pc' = [pc EXCEPT ![c] = "toIFrame"]
    /\ toIFrameCalls' = [toIFrameCalls EXCEPT ![c] = @ + 1]
    /\ attached' = attached \cup {c}
    /\ UNCHANGED <<element, opts, instanceName, container, clonedElement,
                   backgroundColor, backend, error, fastCloneCalls,
                   destroyed, releases, rootBackground, teardown>>
    /\ UNCHANGED <<IframeStorage, LoggerInstances, CacheInstances,
                   attachedInstance, envVars>>

\* Lines 112-116: fastClone.clone() yields no result.
FastCloneFails(c) ==
    /\ pc[c] = "fastClone"
    /\ pc' = [pc EXCEPT ![c] = "rejected"]
    /\ error' = [error EXCEPT ![c] = "An Error occured, trying to fast clone!"]
    /\ UNCHANGED <<element, opts, instanceName, container, clonedElement,
                   backgroundColor, backend, fastCloneCalls, toIFrameCalls,
                   destroyed, releases, rootBackground, teardown>>
    /\ UNCHANGED <<sharedVars, envVars>>

\* Lines 112-118: fastClone.clone() yields a result, whose clonedElement
\* is the duplicated element or undefined.
FastCloneDone(c, found) ==
    /\ pc[c] = "fastClone"
    /\ clonedElement' = [clonedElement EXCEPT ![c] = found]
    /\ UNCHANGED container
    /\ AfterClone(c, found)

\* Line 124/131: the new frame has loaded.
ToIFrameDone(c) ==
    /\ pc[c] = "toIFrame"
    /\ container' = [container EXCEPT ![c] = c]
    /\ UNCHANGED clonedElement
    /\ AfterClone(c, clonedElement[c])

(***************************************************************************)
(* Lines 180/196 and 199-213: the render settles.                          *)
(***************************************************************************)
\* renderer.render rejects: the error propagates out of renderElement.
RenderFails(c) ==
    /\ pc[c] = "render"
    /\ pc' = [pc EXCEPT ![c] = "rejected"]
    /\ error' = [error EXCEPT ![c] = "render failed"]
    /\ UNCHANGED <<element, opts, instanceName, container, clonedElement,
                   backgroundColor, backend, fastCloneCalls, toIFrameCalls,
                   destroyed, releases, rootBackground, teardown>>
    /\ UNCHANGED <<sharedVars, envVars>>

\* Line 199.
RemovesContainer(options) == options.removeContainer = "true"

\* As SavesIframe, testing renderName against null only.
SavesIframe_NotNull(options) == options.renderName # Null

\* Line 206.
SavesIframe(options) == Truthy(options.renderName)

\* DocumentCloner.destroy(container): removes the frame from its parent and
\* returns true, or returns false when it has no parent.
DestroyResult(frame) == IF frame \in attached THEN "true" ELSE "false"

\* As Teardown, with lines 205-208 (saveIframe) before lines 199-203
\* (destroy).
Teardown_SavesFirst(c) ==
    LET options == MergeOptions(opts[c])
        frame == container[c]
        id == instanceName[c]
        \* line 201 or line 210: Logger.getInstance throws
        throwsAt201 ==
            RemovesContainer(options) /\ DestroyResult(frame) = "false" /\ LoggerMissing(c)
        throwsAt210 == ~throwsAt201 /\ LoggerMissing(c)
    IN  /\ pc[c] = "render"
        /\ IF RemovesContainer(options)
           THEN /\ destroyed' = [destroyed EXCEPT ![c] = DestroyResult(frame)]
                /\ attached' = attached \ {frame}
           ELSE UNCHANGED <<destroyed, attached>>
        /\ IF SavesIframe(options)
           THEN IframeStorage' = [IframeStorage EXCEPT ![options.renderName] = frame]
           ELSE UNCHANGED IframeStorage
        /\ teardown' = [teardown EXCEPT ![c] =
                (IF SavesIframe(options)
                 THEN <<"IframeStorage.saveIframe">> ELSE <<>>)
                \o (IF RemovesContainer(options)
                    THEN <<"DocumentCloner.destroy">> ELSE <<>>)
                \o (IF throwsAt201 \/ throwsAt210
                    THEN <<>> ELSE <<"Logger.destroy", "CacheStorage.destroy">>)]
        /\ IF throwsAt201 \/ throwsAt210
           THEN /\ pc' = [pc EXCEPT ![c] = "rejected"]
                /\ error' = [error EXCEPT ![c] = "No logger instance found"]
                /\ UNCHANGED <<releases, LoggerInstances, CacheInstances>>
           ELSE /\ pc' = [pc EXCEPT ![c] = "resolved"]
                /\ releases' = [releases EXCEPT ![c] = @ + 1]
                /\ LoggerInstances' = LoggerInstances \ {id}
                /\ CacheInstances' = CacheInstances \ {id}
                /\ UNCHANGED error
        /\ UNCHANGED <<element, opts, instanceName, container, clonedElement,
                       backgroundColor, backend, fastCloneCalls, toIFrameCalls,
                       rootBackground, attachedInstance>>
        /\ UNCHANGED envVars

\* Lines 199-213, after render has resolved.
Teardown(c) ==
    LET options == MergeOptions(opts[c])
        frame == container[c]
        id == instanceName[c]
        \* line 201 or line 210: Logger.getInstance throws
        throwsAt201 ==
            RemovesContainer(options) /\ DestroyResult(frame) = "false" /\ LoggerMissing(c)
        throwsAt210 == ~throwsAt201 /\ LoggerMissing(c)
    IN  /\ pc[c] = "render"
        /\ IF RemovesContainer(options)
           THEN /\ destroyed' = [destroyed EXCEPT ![c] = DestroyResult(frame)]
                /\ attached' = attached \ {frame}
           ELSE UNCHANGED <<destroyed, attached>>
        /\ IF SavesIframe(options) /\ ~throwsAt201
           THEN IframeStorage' = [IframeStorage EXCEPT ![options.renderName] = frame]
           ELSE UNCHANGED IframeStorage
        /\ teardown' = [teardown EXCEPT ![c] =
                (IF RemovesContainer(options)
                 THEN <<"DocumentCloner.destroy">> ELSE <<>>)
                \o (IF SavesIframe(options) /\ ~throwsAt201
                    THEN <<"IframeStorage.saveIframe">> ELSE <<>>)
                \o (IF throwsAt201 \/ throwsAt210
                    THEN <<>> ELSE <<"Logger.destroy", "CacheStorage.destroy">>)]
        /\ IF throwsAt201 \/ throwsAt210
           THEN /\ pc' = [pc EXCEPT ![c] = "rejected"]
                /\ error' = [error EXCEPT ![c] = "No logger instance found"]
                /\ UNCHANGED <<releases, LoggerInstances, CacheInstances>>
           ELSE /\ pc' = [pc EXCEPT ![c] = "resolved"]
                /\ releases' = [releases EXCEPT ![c] = @ + 1]
                /\ LoggerInstances' = LoggerInstances \ {id}
                /\ CacheInstances' = CacheInstances \ {id}
                /\ UNCHANGED error
        /\ UNCHANGED <<element, opts, instanceName, container, clonedElement,
                       backgroundColor, backend, fastCloneCalls, toIFrameCalls,
                       rootBackground, attachedInstance>>
        /\ UNCHANGED envVars

(***************************************************************************)
(* Specifications.                                                         *)
(***************************************************************************)
\* The steps of call c after it was made.
Continue(c) ==
    \/ FastCloneFails(c)
    \/ \E found \in BOOLEAN : FastCloneDone(c, found)
    \/ ToIFrameDone(c)
    \/ RenderFails(c)
    \/ Teardown(c)

\* The options that decide which frame a call uses and what becomes of it.
FrameFields == {"renderName", "replaceSelector", "removeContainer"}
Differs(o, p) == Cardinality({f \in FrameFields : o[f] # p[f]})

\* The options of a caller that keeps a named frame to have it reused.
ReuseOptions ==
    [NoOptions EXCEPT !.renderName = "a", !.replaceSelector = "#sel",
                      !.removeContainer = "false"]

\* Spec: overlapping calls on elements of a document whose root and body
\* have no background.  A call passes no options, or ReuseOptions, or
\* ReuseOptions with any other value of one of its fields.  The random
\* parts of the calls' identities differ.
FrameOptions ==
    {o \in AllOptions : /\ o.backgroundColor = Unset
                        /\ o.foreignObjectRendering = FALSE
                        /\ o.cache = FALSE
                        /\ o = NoOptions \/ Differs(o, ReuseOptions) <= 1}

RandomPartOf(c) == (c - 1) % (RandomRange + 1)

Init ==
    /\ InitCalls
    /\ InitShared
    /\ documentBackground = "rgba(0, 0, 0, 0)"
    /\ bodyBackground = "rgba(0, 0, 0, 0)"
    /\ elementBackground = "rgba(0, 0, 0, 0)"

Next ==
    \E c \in Calls :
        \/ \E el \in {"noDocument", "noWindow", "child"}, o \in FrameOptions :
              Start(c, el, o, RandomPartOf(c))
        \/ Continue(c)

Spec == Init /\ [][Next]_vars

\* SpecBackground: one call, on any element of a document with any
\* computed root and body background, with every value of backgroundColor
\* and either renderer.
BackgroundCallOptions ==
    {o \in AllOptions : /\ o.renderName = Unset
                        /\ o.replaceSelector = Unset
                        /\ o.removeContainer = Unset}

InitBackground ==
    /\ InitCalls
    /\ InitShared
    /\ documentBackground \in ComputedBackgrounds
    /\ bodyBackground \in ComputedBackgrounds \cup {NoBody}
    /\ elementBackground \in ComputedBackgrounds

NextBackground ==
    \/ \E el \in Elements, o \in BackgroundCallOptions, r \in RandomParts :
          Start(1, el, o, r)
    \/ ToIFrameDone(1)
    \/ RenderFails(1)
    \/ Teardown(1)

SpecBackground == InitBackground /\ [][NextBackground]_vars

(***************************************************************************)
(* Vocabulary of the properties.                                           *)
(***************************************************************************)
\* SpecShared: overlapping calls that all name the frame "a" and give a
\* replaceSelector, made while IframeStorage holds under "a" a frame that
\* an earlier call (removeContainer false) left in the DOM.  Either
\* renderer; removeContainer omitted or false; the random part of each
\* call's identity is any value of RandomParts.
EarlierFrame == NumCalls + 1

SharedOptions ==
    {o \in AllOptions : /\ o.renderName = "a"
                        /\ o.replaceSelector = "#sel"
                        /\ o.removeContainer \in {Unset, "false"}
                        /\ o.cache = FALSE
                        /\ o.backgroundColor = Unset}

InitSharedFrame ==
    /\ InitCalls
    /\ IframeStorage = [n \in StorageKeys |-> IF n = "a" THEN EarlierFrame ELSE NoFrame]
    /\ attached = {EarlierFrame}
    /\ LoggerInstances = {}
    /\ CacheInstances = {}
    /\ attachedInstance = NoInstance
    /\ documentBackground = "rgba(0, 0, 0, 0)"
    /\ bodyBackground = "rgba(0, 0, 0, 0)"
    /\ elementBackground = "rgba(0, 0, 0, 0)"

NextShared ==
    \E c \in Calls :
        \/ \E el \in {"noDocument", "noWindow", "child"}, o \in SharedOptions,
              r \in RandomParts :
              Start(c, el, o, r)
        \/ Continue(c)

SpecShared == InitSharedFrame /\ [][NextShared]_vars

Settled(c) == pc[c] \in {"resolved", "rejected"}
PreconditionErrors ==
    {"Element is not attached to a Document", "Document is not attached to a Window"}
FastCloneError == "An Error occured, trying to fast clone!"
\* Call c got past the precondition checks of lines 40-48.
PastPreconditions(c) == pc[c] # "idle" /\ error[c] \notin PreconditionErrors
\* Call c is in flight: made, and suspended at one of its awaits.
InFlight(c) == pc[c] \in {"fastClone", "toIFrame", "render"}

\* Call c takes a step.
Steps(c) == pc'[c] # pc[c]
\* Call c is made in this step.
Starts(c) == pc[c] = "idle" /\ pc'[c] # "idle"

(***************************************************************************)
(* C1.  Two sequential successful calls with the same renderName and the   *)
(* same replaceSelector: the second takes the fast path, and at most one   *)
(* toIFrame happens across both, whatever the other options.               *)
(* Stated at the moment the second call c is made, the first call d having *)
(* resolved and no other call having been made.                            *)
(***************************************************************************)
C1_SecondCallTakesFastPath ==
    [][\A c, d \in Calls :
         ( /\ c # d
           /\ pc[d] = "resolved"
           /\ \A e \in Calls \ {d} : pc[e] = "idle"
           /\ Starts(c)
           /\ Truthy(opts'[c].renderName)
           /\ Truthy(opts'[c].replaceSelector)
           /\ opts'[c].renderName = opts[d].renderName
           /\ opts'[c].replaceSelector = opts[d].replaceSelector )
         => /\ pc'[c] = "fastClone"
            /\ toIFrameCalls'[c] + toIFrameCalls[d] <= 1]_vars

(***************************************************************************)
(* C2.  Once a call that got past the precondition checks has settled,     *)
(* resolved or rejected, Logger.destroy and CacheStorage.destroy have run  *)
(* exactly once for it and nothing is registered under its identity.       *)
(***************************************************************************)
C2_ReleasedOnEveryExit ==
    \A c \in Calls :
        (Settled(c) /\ PastPreconditions(c))
        => /\ releases[c] = 1
           /\ instanceName[c] \notin LoggerInstances
           /\ instanceName[c] \notin CacheInstances

(***************************************************************************)
(* C3.  When a call that supplied a render name settles, IframeStorage     *)
(* holds under that name the hosting frame the call used, whatever         *)
(* removeContainer was.                                                    *)
(***************************************************************************)
C3_NamedFrameStored ==
    [][\A c \in Calls :
         ( /\ Steps(c)
           /\ pc'[c] \in {"resolved", "rejected"}
           /\ error'[c] \notin PreconditionErrors
           /\ Truthy(opts'[c].renderName) )
         => /\ IframeStorage'[opts'[c].renderName] # NoFrame
            /\ IframeStorage'[opts'[c].renderName] = container'[c]]_vars

(***************************************************************************)
(* C4.  No step of a call whose renderName is unset, null or empty changes *)
(* IframeStorage, whether the call then resolves or rejects.               *)
(***************************************************************************)
C4_UnnamedCallLeavesStorage ==
    [][\A c \in Calls :
         (Steps(c) /\ ~Truthy(opts'[c].renderName))
         => IframeStorage' = IframeStorage]_vars

\* A call without a render name has resolved on a frame of its own, which
\* is stored under no name.
C4_Witness ==
    \E c \in Calls :
        /\ pc[c] = "resolved"
        /\ opts[c].renderName = ""
        /\ container[c] = c
        /\ \A n \in StorageKeys : IframeStorage[n] # c

(***************************************************************************)
(* C5.  A call on an element without document, or in a document without    *)
(* window, is rejected with the precondition error and creates nothing: no *)
(* logger, no cache, no frame, no change of IframeStorage.                 *)
(***************************************************************************)
C5_PreconditionCreatesNothing ==
    [][\A c \in Calls :
         (Starts(c) /\ element'[c] \in {"noDocument", "noWindow"})
         => /\ pc'[c] = "rejected"
            /\ error'[c] \in PreconditionErrors
            /\ instanceName'[c] = NoInstance
            /\ container'[c] = NoFrame
            /\ toIFrameCalls'[c] = 0 /\ fastCloneCalls'[c] = 0
            /\ sharedVars' = sharedVars]_vars

\* A call was rejected for its element having no document while another
\* call's frame and registrations exist.
C5_Witness ==
    \E c, d \in Calls :
        /\ pc[c] = "rejected"
        /\ error[c] = "Element is not attached to a Document"
        /\ instanceName[c] = NoInstance
        /\ pc[d] = "toIFrame"
        /\ instanceName[d] \in LoggerInstances


(***************************************************************************)
(* The background rule in the words of its description: the base default   *)
(* of a backgroundColor option, and a colour being transparent.            *)
(***************************************************************************)
BaseDefault(userOption) ==
    CASE userOption = Null                 -> <<0, 0, 0, 0>>
      [] userOption \in {Unset, Undefined} -> <<255, 255, 255, 255>>
      [] OTHER                             -> parseColor(userOption)

Resolved(c) == backgroundColor[c] # NotResolved
RootComputed == parseColor(documentBackground)
BodyComputed == IF bodyBackground = NoBody THEN <<0, 0, 0, 0>> ELSE parseColor(bodyBackground)
Opaque(color) == color[4] # 0

(***************************************************************************)
(* C6.  Target is the document's root element: the resolved background is  *)
(* the root's computed background if that is not transparent (the          *)
(* backgroundColor option is then ignored), else the body's if that is not *)
(* transparent, else the base default of the option.                       *)
(***************************************************************************)
C6_RootBackgroundCascade ==
    \A c \in Calls :
        (element[c] = "root" /\ Resolved(c))
        => /\ Opaque(RootComputed) => backgroundColor[c] = RootComputed
           /\ (~Opaque(RootComputed) /\ Opaque(BodyComputed))
                => backgroundColor[c] = BodyComputed
           /\ (~Opaque(RootComputed) /\ ~Opaque(BodyComputed))
                => backgroundColor[c] = BaseDefault(opts[c].backgroundColor)
           /\ (documentBackground = "rgb(10, 20, 30)" /\ opts[c].backgroundColor = "#ffffff")
                => backgroundColor[c] = <<10, 20, 30, 255>>
           /\ ( /\ documentBackground = "rgba(0, 0, 0, 0)"
                /\ bodyBackground = "rgba(0, 0, 0, 0)"
                /\ opts[c].backgroundColor = Null )
                => backgroundColor[c] = <<0, 0, 0, 0>>

\* The root is captured, its background is opaque and the caller asked for
\* white: the root's colour is the result.
C6_Witness ==
    \E c \in Calls :
        /\ element[c] = "root"
        /\ documentBackground = "rgb(10, 20, 30)"
        /\ opts[c].backgroundColor = "#ffffff"
        /\ backgroundColor[c] = <<10, 20, 30, 255>>
        /\ pc[c] = "resolved"

(***************************************************************************)
(* C7.  Target is any other element: the resolved background is the base   *)
(* default (the parsed backgroundColor if it is a string, fully            *)
(* transparent if it is null, opaque white if it is unset), whatever the   *)
(* root's and the body's computed backgrounds are.                         *)
(***************************************************************************)
C7_ElementBackgroundIsBaseDefault ==
    \A c \in Calls :
        (element[c] = "child" /\ Resolved(c))
        => /\ backgroundColor[c] = BaseDefault(opts[c].backgroundColor)
           /\ opts[c].backgroundColor = "#ff0000" => backgroundColor[c] = <<255, 0, 0, 255>>
           /\ opts[c].backgroundColor = Null => backgroundColor[c] = <<0, 0, 0, 0>>
           /\ opts[c].backgroundColor = Unset => backgroundColor[c] = <<255, 255, 255, 255>>

\* Another element is captured in a document whose root has an opaque
\* background, with backgroundColor "#ff0000": the result is red.
C7_Witness ==
    \E c \in Calls :
        /\ element[c] = "child"
        /\ documentBackground = "rgb(10, 20, 30)"
        /\ opts[c].backgroundColor = "#ff0000"
        /\ backgroundColor[c] = <<255, 0, 0, 255>>
        /\ pc[c] = "resolved"

(***************************************************************************)
(* C8.  A call leaves the awaited fast clone either dispatched to a        *)
(* renderer or rejected, never into a full duplication; when it is         *)
(* rejected with the fast-clone error it has called toIFrame never, no     *)
(* renderer, and the step leaves IframeStorage as it was.                  *)
(***************************************************************************)
C8_FastCloneFailureIsFinal ==
    [][\A c \in Calls :
         (pc[c] = "fastClone" /\ Steps(c))
         => /\ pc'[c] \in {"rejected", "render"}
            /\ toIFrameCalls'[c] = 0
            /\ error'[c] = FastCloneError
                 => /\ pc'[c] = "rejected"
                    /\ backend'[c] = "none"
                    /\ c \notin attached'
                    /\ IframeStorage' = IframeStorage]_vars

\* A call that borrowed a cached frame was rejected with the fast-clone
\* error.
C8_Witness ==
    \E c \in Calls :
        /\ pc[c] = "rejected"
        /\ error[c] = FastCloneError
        /\ fastCloneCalls[c] = 1
        /\ container[c] # NoFrame /\ container[c] # c

(***************************************************************************)
(* C9.  In every call that reaches teardown (its render resolved), the     *)
(* hosting frame is destroyed unless removeContainer was passed as false:  *)
(* also when it is omitted, and when it is passed as undefined.            *)
(***************************************************************************)
C9_DestroyedUnlessFalse ==
    [][\A c \in Calls :
         (pc[c] = "render" /\ Steps(c) /\ error'[c] # "render failed")
         => IF opts[c].removeContainer = "false"
            THEN destroyed'[c] = "not called"
            ELSE destroyed'[c] # "not called" /\ container[c] \notin attached']_vars

(***************************************************************************)
(* C10.  A call that passes the preconditions attempts the fast clone if   *)
(* and only if replaceSelector and renderName are both non-empty, the      *)
(* IframeStorage holds a frame under renderName when the call looks it up  *)
(* and that frame's window is reachable; otherwise it calls toIFrame,      *)
(* which materializes a new frame.  No call does both.                     *)
(***************************************************************************)
C10_FastPathIff ==
    /\ [](\A c \in Calls : fastCloneCalls[c] + toIFrameCalls[c] <= 1)
    /\ [][\A c \in Calls :
            (Starts(c) /\ element'[c] \notin {"noDocument", "noWindow"})
            => LET name == opts'[c].renderName
                   qualifies ==
                       /\ name \notin {Unset, Null, ""}
                       /\ opts'[c].replaceSelector \notin {Unset, Null, ""}
                       /\ IframeStorage[name] # NoFrame
                       /\ IframeStorage[name] \in attached
               IN  /\ qualifies <=> (fastCloneCalls'[c] = 1 /\ pc'[c] = "fastClone")
                   /\ ~qualifies <=> (toIFrameCalls'[c] = 1 /\ pc'[c] = "toIFrame")
                   /\ ~qualifies => (c \notin attached /\ c \in attached')
                   /\ qualifies => (attached' = attached
                                    /\ container'[c] = IframeStorage[name])]_vars

\* A call supplied both options and found a frame stored under its name,
\* but the frame's window was gone: it is materializing a new frame.
C10_Witness ==
    \E c \in Calls :
        /\ pc[c] = "toIFrame"
        /\ Truthy(opts[c].renderName) /\ Truthy(opts[c].replaceSelector)
        /\ IframeStorage[opts[c].renderName] # NoFrame
        /\ IframeStorage[opts[c].renderName] \notin attached


(***************************************************************************)
(* C11.  A call that borrowed its hosting frame from IframeStorage (it     *)
(* took the fast path) never passes it to DocumentCloner.destroy: on       *)
(* leaving the awaited render the call has not called destroy and the      *)
(* borrowed frame is in the DOM as before, whatever removeContainer is.    *)
(***************************************************************************)
C11_BorrowedFrameNotDestroyed ==
    [][\A c \in Calls :
         (pc[c] = "render" /\ Steps(c) /\ fastCloneCalls[c] = 1)
         => /\ destroyed'[c] = "not called"
            /\ (container[c] \in attached) => (container[c] \in attached')]_vars

(***************************************************************************)
(* C12.  Within one call the steps come in a fixed order, also with other  *)
(* calls interleaved at the awaits: while the duplication is awaited       *)
(* nothing later has happened; the background is resolved only with the    *)
(* duplicated element and its frame in hand; a renderer is dispatched only *)
(* with the background resolved; while the render is awaited no teardown   *)
(* action has happened; and a frame is removed, IframeStorage written or a *)
(* registration released only in the step in which some call's awaited     *)
(* render resolves.                                                        *)
(***************************************************************************)
C12_StepsInOrder ==
    /\ [](\A c \in Calls :
            /\ pc[c] \in {"idle", "fastClone", "toIFrame"}
                 => /\ backgroundColor[c] = NotResolved
                    /\ backend[c] = "none"
                    /\ destroyed[c] = "not called"
                    /\ releases[c] = 0
            /\ Resolved(c) => (clonedElement[c] /\ container[c] # NoFrame)
            /\ backend[c] # "none" => Resolved(c)
            /\ pc[c] = "render"
                 => /\ backend[c] # "none"
                    /\ destroyed[c] = "not called"
                    /\ releases[c] = 0
            /\ (destroyed[c] # "not called" \/ releases[c] > 0)
                 => /\ Settled(c)
                    /\ backend[c] # "none"
                    /\ error[c] # "render failed")
    /\ [][( \/ IframeStorage' # IframeStorage
            \/ attached \ attached' # {}
            \/ LoggerInstances \ LoggerInstances' # {}
            \/ CacheInstances \ CacheInstances' # {} )
          => \E c \in Calls :
                /\ pc[c] = "render" /\ pc'[c] \in {"resolved", "rejected"}
                /\ error'[c] # "render failed"
                /\ backend[c] # "none" /\ Resolved(c)
                /\ \A d \in Calls \ {c} : pc'[d] = pc[d]]_vars

\* A call has torn down (frame destroyed, registrations released) in
\* between the steps of another call, whose render is still awaited.
C12_Witness ==
    \E c, d \in Calls :
        /\ pc[c] = "resolved"
        /\ destroyed[c] = "true"
        /\ releases[c] = 1
        /\ pc[d] = "render"
        /\ toIFrameCalls[d] = 1
        /\ instanceName[d] \in LoggerInstances

(***************************************************************************)
(* C13.  When the render of a call with removeContainer true or omitted    *)
(* and a render name has resolved, the call calls DocumentCloner.destroy   *)
(* before IframeStorage.saveIframe: whenever it stores its frame, destroy  *)
(* came first and the entry under its name is a frame that is out of the   *)
(* DOM (its window is not reachable); a call that resolves has done both.  *)
(***************************************************************************)
C13_DestroyedBeforeStored ==
    [][\A c \in Calls :
         ( /\ pc[c] = "render" /\ Steps(c) /\ error'[c] # "render failed"
           /\ opts[c].removeContainer \in {Unset, "true"}
           /\ Truthy(opts[c].renderName) )
         => LET name == opts[c].renderName
                calls == teardown'[c]
                stored == \E j \in DOMAIN calls : calls[j] = "IframeStorage.saveIframe"
            IN  /\ calls # <<>> /\ calls[1] = "DocumentCloner.destroy"
                /\ \A j \in DOMAIN calls :
                      calls[j] = "IframeStorage.saveIframe" => j > 1
                /\ pc'[c] = "resolved" => stored
                /\ stored => /\ IframeStorage'[name] = container[c]
                             /\ ~(container[c] \in attached')]_vars

\* A call with a render name and removeContainer omitted has resolved: its
\* frame was destroyed and is what IframeStorage holds under the name.
C13_Witness ==
    \E c \in Calls :
        /\ pc[c] = "resolved"
        /\ opts[c].removeContainer = Unset
        /\ opts[c].renderName = "a"
        /\ destroyed[c] = "true"
        /\ teardown[c][2] = "IframeStorage.saveIframe"
        /\ IframeStorage["a"] = c
        /\ c \notin attached

(***************************************************************************)
(* C14.  When DocumentCloner.destroy returns false at teardown, the call   *)
(* does not fail: in that same step it stores its frame under renderName   *)
(* (when one was supplied), runs Logger.destroy and CacheStorage.destroy   *)
(* for its identity, and resolves.                                         *)
(***************************************************************************)
C14_DestroyFailureIsNotFatal ==
    [][\A c \in Calls :
         (pc[c] = "render" /\ Steps(c) /\ destroyed'[c] = "false")
         => /\ pc'[c] = "resolved"
            /\ error'[c] = "none"
            /\ Truthy(opts[c].renderName)
                 => IframeStorage'[opts[c].renderName] = container[c]
            /\ releases'[c] = 1
            /\ instanceName[c] \notin LoggerInstances'
            /\ instanceName[c] \notin CacheInstances']_vars

(***************************************************************************)
(* C15.  No two calls that are in flight at the same time have the same    *)
(* instanceName, and the logger an in-flight call looks up under its       *)
(* instanceName is registered: no other call's Logger.destroy removed it.  *)
(***************************************************************************)
C15_LiveIdentitiesDistinct ==
    \A c \in Calls :
        InFlight(c)
        => /\ \A d \in Calls \ {c} : InFlight(d) => instanceName[d] # instanceName[c]
           /\ instanceName[c] \in LoggerInstances

(***************************************************************************)
(* C16.  IframeStorage does not coordinate calls by name.  While a call d  *)
(* is in flight on the frame stored under a name, a call with that         *)
(* renderName and a replaceSelector can be made, and when it is made it    *)
(* neither waits nor gets a frame of its own: it is handed the same frame  *)
(* as its container and is in flight on it together with d.                *)
(***************************************************************************)
C16_SameNameCallsShareFrame ==
    /\ [](\A c, d \in Calls :
            ( /\ c # d /\ pc[c] = "idle" /\ InFlight(d)
              /\ container[d] = IframeStorage["a"]
              /\ container[d] \in attached )
            => ENABLED Start(c, "child", ReuseOptions, 0))
    /\ [][\A c, d \in Calls :
            ( /\ c # d /\ Starts(c) /\ InFlight(d)
              /\ element'[c] \notin {"noDocument", "noWindow"}
              /\ Truthy(opts'[c].renderName) /\ Truthy(opts'[c].replaceSelector)
              /\ container[d] = IframeStorage[opts'[c].renderName]
              /\ container[d] \in attached )
            => /\ pc'[c] = "fastClone"
               /\ container'[c] = container[d]
               /\ InFlight(d)'
               /\ container'[c] \in attached']_vars

\* Two calls with the same renderName and replaceSelector are in flight,
\* both awaiting their render, on the same frame, which is in the DOM.
C16_Witness ==
    \E c, d \in Calls :
        /\ c # d
        /\ pc[c] = "render" /\ pc[d] = "render"
        /\ opts[c].renderName = opts[d].renderName
        /\ opts[c].replaceSelector = opts[d].replaceSelector
        /\ container[c] = container[d]
        /\ container[c] # NoFrame
        /\ container[c] \in attached

(***************************************************************************)
(* The renderer line 177 selects for call c.                               *)
(***************************************************************************)
SelectedBackend(c) ==
    IF opts[c].foreignObjectRendering THEN "ForeignObjectRenderer" ELSE "CanvasRenderer"
\* Call c holds a duplicated element and its duplication await is over.
Duplicated(c) == clonedElement[c] /\ pc[c] \in {"render", "resolved", "rejected"}
CloneResolutionError == "Unable to find element in cloned iframe"

(***************************************************************************)
(* C17 as claimed.  A call renders with at most one renderer, once; a call *)
(* that holds a duplicated element has rendered with exactly the renderer  *)
(* foreignObjectRendering selects; a call rejected by a precondition, the  *)
(* fast clone or the clone resolution has rendered with none.              *)
(***************************************************************************)
C17_ExactlyOneBackend ==
    /\ [](\A c \in Calls :
            /\ Duplicated(c) => backend[c] = SelectedBackend(c)
            /\ error[c] \in PreconditionErrors \cup {FastCloneError, CloneResolutionError}
                 => backend[c] = "none")
    /\ [][\A c \in Calls : backend'[c] # backend[c] => backend[c] = "none"]_vars

(***************************************************************************)
(* C17, amended.  A call renders with at most one renderer, once, and      *)
(* never with the one foreignObjectRendering does not select; a call whose *)
(* render is awaited or has resolved has rendered with the selected one;   *)
(* a call that holds a duplicated element has rendered with exactly one    *)
(* unless it was rejected between the duplication and the render, by       *)
(* parseTree throwing or by its logger not being found; a call rejected by *)
(* a precondition, the fast clone, the clone resolution or parseTree has   *)
(* rendered with none.                                                     *)
(***************************************************************************)
C17_AtMostOneBackend ==
    /\ [](\A c \in Calls :
            /\ backend[c] \in {"none", SelectedBackend(c)}
            /\ pc[c] \in {"render", "resolved"} => backend[c] = SelectedBackend(c)
            /\ (Duplicated(c) /\ backend[c] = "none")
                 => /\ pc[c] = "rejected"
                    /\ error[c] \in {"parseTree failed", "No logger instance found"}
            /\ error[c] \in PreconditionErrors
                            \cup {FastCloneError, CloneResolutionError, "parseTree failed"}
                 => backend[c] = "none"
            /\ error[c] = "parseTree failed" => ~opts[c].foreignObjectRendering)
    /\ [][\A c \in Calls :
            backend'[c] # backend[c]
            => /\ backend[c] = "none"
               /\ pc[c] \in {"fastClone", "toIFrame"}
               /\ pc'[c] = "render"]_vars

\* A call on the fast path has rendered with the foreign-object renderer
\* and resolved, and another call that held a duplicated element was
\* rejected by parseTree without rendering.
C17_Witness ==
    \E c, d \in Calls :
        /\ pc[c] = "resolved"
        /\ fastCloneCalls[c] = 1
        /\ backend[c] = "ForeignObjectRenderer"
        /\ pc[d] = "rejected"
        /\ clonedElement[d]
        /\ error[d] = "parseTree failed"
        /\ backend[d] = "none"

C19_FrameDestroyedOnFailure ==
    \A c \in Calls :
        ( /\ pc[c] = "rejected"
          /\ toIFrameCalls[c] = 1
          /\ error[c] \in {CloneResolutionError, "render failed"}
          /\ opts[c].removeContainer # "false" )
        => c \notin attached

(***************************************************************************)
(* C20.  CacheStorage has a cache attached only inside the synchronous     *)
(* stretch between attachInstance and detachInstance: whenever every call  *)
(* is idle, suspended at an await or settled (every state between two      *)
(* steps), also after parseTree has thrown, no cache is attached.          *)
(***************************************************************************)
C20_NoCacheAttachedAtAwaits ==
    attachedInstance = NoInstance

=============================================================================
